---------------------------- MODULE Spec2Model ----------------------------
(***************************************************************************)
(* CheckMK Device Sync for Netbox (checkmk.py).                            *)
(*                                                                         *)
(* The script is modelled as a sequential process (pc) that talks to the   *)
(* monitoring system through one HTTP request per step.  Strings are       *)
(* sequences of one-character strings, so that f-string concatenation,     *)
(* str.split, str.replace and slicing are computed as Python computes      *)
(* them.  The monitoring system is the environment: its folder tree, its   *)
(* single host entry with the entity tag, and the status it answers.       *)
(***************************************************************************)
EXTENDS Naturals, Sequences, FiniteSets, TLC

VARIABLES
    \* ---- monitoring system (CheckMK) ----
    folders,      \* set of folder paths that exist, each a string like "/network/b"
    host,         \* the host entry of HostName: [exists, folder, ip, etag]
    \* ---- what the environment may still do ----
    faultBudget,  \* requests the API may still answer with a server error
    apiFaulted,   \* TRUE once the API has answered a request with a server error
    otherBudget,  \* edits another actor may still make
    hostTouched,  \* another actor changed the host entry since this invocation started
    treeTouched,  \* another actor changed the folder tree since this invocation started
    hostTouchedPrev,  \* ... during the previous invocation
    treeTouchedPrev,  \* ... during the previous invocation
    \* ---- the webhook invocation ----
    data,         \* the event payload handed to run(): [hasEvent, event, name, device]
    commit,       \* the commit flag handed to run()
    runs,         \* invocations of run() started so far
    pc,           \* position of the script
    \* ---- locals of device_update / check_folders ----
    ip, xpath, px, idx, parent, hstate, hfolder, hip, etag,
    \* ---- what one invocation did ----
    calls,        \* the HTTP requests of this invocation, in order, with their status
    log,          \* the self.log_* lines of this invocation, in order
    ret,          \* the value run() returned
    prevCalls,    \* the HTTP requests of the previous invocation
    prevRet,      \* how the previous invocation ended
    host0,        \* the host entry when this invocation started
    folders0,     \* the folder tree when this invocation started
    \* ---- the path builder on its own (SpecPath) ----
    pbRoot, pbDevice, pbPath, pbDone

scriptVars == <<data, commit, runs, pc, ip, xpath, px, idx, parent, hstate, hfolder,
                hip, etag, calls, log, ret, prevCalls, prevRet, host0, folders0>>
serverVars == <<folders, host>>
envVars == <<faultBudget, apiFaulted, otherBudget, hostTouched, treeTouched,
             hostTouchedPrev, treeTouchedPrev>>
touchVars == <<hostTouched, treeTouched, hostTouchedPrev, treeTouchedPrev>>
pbVars == <<pbRoot, pbDevice, pbPath, pbDone>>
vars == <<serverVars, envVars, scriptVars, pbVars>>

---------------------------------------------------------------------------
(* Bounds of the model                                                     *)

MaxRuns == 2
MaxFaults == 1
MaxOther == 1

---------------------------------------------------------------------------
(* Python strings                                                          *)

\* str.replace(old, new) for one-character old and new
Replace(s, old, new) == [i \in 1..Len(s) |-> IF s[i] = old THEN new ELSE s[i]]

\* position of the first sep in s, or 0
RECURSIVE FindFrom(_, _, _)
FindFrom(s, sep, i) ==
    IF i > Len(s) THEN 0
    ELSE IF s[i] = sep THEN i
    ELSE FindFrom(s, sep, i + 1)

\* str.split(sep): the list of the pieces between the separators, empty pieces kept
RECURSIVE Split(_, _)
Split(s, sep) ==
    LET k == FindFrom(s, sep, 1) IN
    IF k = 0 THEN <<s>>
    ELSE <<SubSeq(s, 1, k - 1)>> \o Split(SubSeq(s, k + 1, Len(s)), sep)

\* s[:-1]
DropLast(s) == SubSeq(s, 1, Len(s) - 1)

\* list[1:]
Rest(l) == SubSeq(l, 2, Len(l))

Slash == <<"/">>

---------------------------------------------------------------------------
(* Configuration                                                           *)

ROOT_FOLDER == <<"/", "n", "e", "t", "w", "o", "r", "k">>

HostName == "srv1"

HTTP_OK == 200
HTTP_NO_CONTENT == 204
HTTP_BAD_REQUEST == 400
HTTP_NOT_FOUND == 404
HTTP_PRECONDITION_FAILED == 412
HTTP_SERVER_ERROR == 500

\* the ETag default '' of check_host_exists when the host was not found
NoETag == 0

---------------------------------------------------------------------------
(* Path Builder: device_update, lines 242-260                              *)

\* d.site.region.slug, or "" when the site has no region
RegionOf(d) == IF d.hasRegion THEN d.regionSlug ELSE <<>>

\* d.site.region.parent.slug, or "" when there is no region or no parent
ParentRegionOf(d) ==
    IF d.hasRegion /\ d.hasParent THEN d.parentSlug ELSE <<>>

BuildPath(root, site, region, parent_region) ==
    IF parent_region # <<>>
    THEN root \o Slash \o parent_region \o Slash \o region \o Slash \o site
    ELSE IF region # <<>>
    THEN root \o Slash \o region \o Slash \o site
    ELSE root \o Slash \o site

XPath(root, d) == BuildPath(root, d.site, RegionOf(d), ParentRegionOf(d))


---------------------------------------------------------------------------
(* Device records of the inventory (Device.objects.get, line 239)          *)

Dev(site, hasRegion, regionSlug, hasParent, parentSlug, hasIP, addr) ==
    [site |-> site, hasRegion |-> hasRegion, regionSlug |-> regionSlug,
     hasParent |-> hasParent, parentSlug |-> parentSlug,
     hasIP |-> hasIP, ip |-> addr]

TargetIP == "10.0.0.5"
OtherIP == "10.0.0.9"
IPs == {TargetIP, OtherIP}

SiteB == <<"b">>
RegionDE == <<"d", "e">>
RegionEU == <<"e", "u">>

DevSiteOnly == Dev(SiteB, FALSE, <<>>, FALSE, <<>>, TRUE, TargetIP)
DevRegion == Dev(SiteB, TRUE, RegionDE, FALSE, <<>>, TRUE, TargetIP)
DevParent == Dev(SiteB, TRUE, RegionDE, TRUE, RegionEU, TRUE, TargetIP)
\* a device that has no primary IPv4 address yet
DevNoIP == Dev(SiteB, TRUE, RegionDE, FALSE, <<>>, FALSE, "")

DevicesWithIP == {DevSiteOnly, DevRegion, DevParent}
Devices == DevicesWithIP \cup {DevNoIP}

Events == {"updated", "deleted", "created"}

Payloads ==
    {[hasEvent |-> TRUE, event |-> e, name |-> HostName, device |-> d] :
        e \in Events, d \in Devices}
    \cup {[hasEvent |-> FALSE, event |-> "", name |-> HostName, device |-> d] :
        d \in Devices}

---------------------------------------------------------------------------
(* The monitoring system                                                   *)

\* "/a/b" for the segments <<a, b>>
RECURSIVE JoinPath(_)
JoinPath(segs) ==
    IF Len(segs) = 0 THEN <<>>
    ELSE Slash \o Head(segs) \o JoinPath(Tail(segs))

\* the segments of a folder path, px[1:] of check_folders
Segments(path) == Rest(Split(path, "/"))

\* the prefix folder made of the first k segments of path
Prefix(path, k) == JoinPath(SubSeq(Segments(path), 1, k))

\* every prefix folder of path, from the first segment down to the full path
Prefixes(path) == {Prefix(path, k) : k \in 1..Len(Segments(path))}

\* The API takes "~" for "/" in a path and ignores one trailing separator.
ServerPath(p) ==
    LET q == Replace(p, "~", "/") IN
    IF Len(q) > 1 /\ q[Len(q)] = "/" THEN DropLast(q) ELSE q

NoHost == [exists |-> FALSE, folder |-> <<>>, ip |-> "", etag |-> NoETag]

HostAt(f, addr, tag) == [exists |-> TRUE, folder |-> f, ip |-> addr, etag |-> tag]

\* the entity tag of a host entry that was just created
FirstETag == 1

\* the monitoring system holds an entry of this name
Known(hostname) == hostname = HostName /\ host.exists

\* GET objects/folder_config/{folder_path}
FolderStatus(fault, folder_path) ==
    IF fault THEN HTTP_SERVER_ERROR
    ELSE IF ServerPath(folder_path) \in folders THEN HTTP_OK
    ELSE HTTP_NOT_FOUND

\* the folder a create-folder request names
NewFolder(par, folder) ==
    IF ServerPath(par) = Slash THEN Slash \o folder
    ELSE ServerPath(par) \o Slash \o folder

\* POST domain-types/folder_config/collections/all
CreateFolderStatus(fault, par, folder) ==
    IF fault THEN HTTP_SERVER_ERROR
    ELSE IF /\ ServerPath(par) \in folders
            /\ folder # <<>>
            /\ NewFolder(par, folder) \notin folders
    THEN HTTP_OK
    ELSE HTTP_BAD_REQUEST

\* GET objects/host_config/{hostname}
HostStatus(fault, hostname) ==
    IF fault THEN HTTP_SERVER_ERROR
    ELSE IF Known(hostname) THEN HTTP_OK
    ELSE HTTP_NOT_FOUND

\* POST domain-types/host_config/collections/all
CreateHostStatus(fault, hostname, folder) ==
    IF fault THEN HTTP_SERVER_ERROR
    ELSE IF /\ hostname = HostName
            /\ ~host.exists
            /\ ServerPath(folder) \in folders
    THEN HTTP_OK
    ELSE HTTP_BAD_REQUEST

\* DELETE objects/host_config/{hostname}
DeleteHostStatus(fault, hostname) ==
    IF fault THEN HTTP_SERVER_ERROR
    ELSE IF Known(hostname) THEN HTTP_NO_CONTENT
    ELSE HTTP_NOT_FOUND

\* PUT objects/host_config/{hostname} with If-Match
UpdateHostStatus(fault, hostname, ifMatch) ==
    IF fault THEN HTTP_SERVER_ERROR
    ELSE IF ~Known(hostname) THEN HTTP_NOT_FOUND
    ELSE IF ifMatch # host.etag THEN HTTP_PRECONDITION_FAILED
    ELSE HTTP_OK

\* POST objects/host_config/{hostname}/actions/move/invoke with If-Match
MoveHostStatus(fault, hostname, target_folder, ifMatch) ==
    IF fault THEN HTTP_SERVER_ERROR
    ELSE IF ~Known(hostname) THEN HTTP_NOT_FOUND
    ELSE IF ifMatch # host.etag THEN HTTP_PRECONDITION_FAILED
    ELSE IF ServerPath(target_folder) \notin folders THEN HTTP_BAD_REQUEST
    ELSE HTTP_OK

\* whether the API answers this request with a server error
FaultChoices == IF faultBudget > 0 THEN {FALSE, TRUE} ELSE {FALSE}

Faulted(fault) ==
    /\ faultBudget' = IF fault THEN faultBudget - 1 ELSE faultBudget
    /\ apiFaulted' = (apiFaulted \/ fault)


---------------------------------------------------------------------------
(* The script: what one invocation records                                 *)

\* one HTTP request and the status it was answered with
Call(op, hostname, path, name, addr, tag, status) ==
    [op |-> op, hostname |-> hostname, path |-> path, name |-> name, ip |-> addr,
     etag |-> tag, status |-> status]

LogLine(level, msg) == [level |-> level, msg |-> msg]

RetNone == [kind |-> "None", state |-> "", code |-> 0, message |-> ""]
RetMessage(m) == [kind |-> "message", state |-> "", code |-> 0, message |-> m]
RetState(st, c) == [kind |-> "state", state |-> st, code |-> c, message |-> ""]

MsgWrongTrigger == "This script can only be triggered by webhook."
MsgUnknown == "Unknown action triggered"

\* no locals yet
ClearLocals ==
    /\ ip' = ""
    /\ xpath' = <<>>
    /\ px' = <<>>
    /\ idx' = 1
    /\ parent' = <<>>
    /\ hstate' = FALSE
    /\ hfolder' = <<>>
    /\ hip' = ""
    /\ etag' = NoETag

---------------------------------------------------------------------------
(* run(data, commit), lines 311-321, up to the first HTTP request          *)

DispatchUnknownAsUpdate(d) ==
    IF ~d.hasEvent THEN "message"
    ELSE IF d.event = "deleted" THEN "device_deleted"
    ELSE "device_update"

\* commit' is the flag the invocation that starts in this step is given
DispatchWhenCommitted(d) ==
    IF ~d.hasEvent \/ ~commit' THEN "message"
    ELSE IF d.event = "updated" THEN "device_update"
    ELSE IF d.event = "deleted" THEN "device_deleted"
    ELSE "unknown"

DispatchWithoutKeyTest(d) ==
    IF d.hasEvent /\ d.event = "deleted" THEN "device_deleted"
    ELSE IF d.hasEvent /\ d.event # "updated" THEN "unknown"
    ELSE "device_update"

\* the branch run() takes for the payload d
Dispatch(d) ==
    IF ~d.hasEvent THEN "message"
    ELSE IF d.event = "updated" THEN "device_update"
    ELSE IF d.event = "deleted" THEN "device_deleted"
    ELSE "unknown"

HasPrimaryIP4Always(d) == TRUE

\* d.primary_ip4 is an address: d.primary_ip4.address.ip at line 241 can be read
HasPrimaryIP4(d) == d.hasIP

\* how an invocation ended: the value run() returned, or the exception it raised
RetRaised == [kind |-> "raised", state |-> "", code |-> 0, message |-> "AttributeError"]

Outcome == IF pc = "raised" THEN RetRaised ELSE ret

\* run(data, c) is called while the monitoring system holds the host entry h and
\* the folder tree f
Invoke(h, f, c) ==
    /\ pc \in {"idle", "done", "raised"}
    /\ runs < MaxRuns
    /\ runs' = runs + 1
    /\ prevCalls' = calls
    /\ prevRet' = Outcome
    /\ calls' = <<>>
    /\ host' = h
    /\ folders' = f
    /\ commit' = c
    /\ host0' = h
    /\ folders0' = f
    /\ hostTouchedPrev' = hostTouched
    /\ treeTouchedPrev' = treeTouched
    /\ hostTouched' = FALSE
    /\ treeTouched' = FALSE
    /\ UNCHANGED <<faultBudget, apiFaulted, otherBudget, pbVars, data>>
    /\ LET branch == Dispatch(data) IN
       IF branch = "message"
       THEN \* "event" not in data.keys()
            /\ ret' = RetMessage(MsgWrongTrigger)
            /\ log' = <<>>
            /\ pc' = "done"
            /\ ClearLocals
       ELSE IF branch = "device_update"
       THEN \* device_update, lines 235-260
            /\ ret' = RetNone
            /\ log' = <<LogLine("debug", "Device update triggered ...")>>
            /\ IF ~HasPrimaryIP4(data.device)
               THEN \* d.primary_ip4 is None: AttributeError at line 241
                    /\ pc' = "raised"
                    /\ ClearLocals
               ELSE /\ ip' = data.device.ip
                    /\ xpath' = XPath(ROOT_FOLDER, data.device)
                    \* check_folders, lines 113-115
                    /\ parent' = Slash
                    /\ px' = Rest(Split(xpath', "/"))
                    /\ idx' = 1
                    /\ pc' = IF Len(px') = 0 THEN "check_host_exists" ELSE "check_folder"
                    /\ hstate' = FALSE
                    /\ hfolder' = <<>>
                    /\ hip' = ""
                    /\ etag' = NoETag
       ELSE IF branch = "device_deleted"
       THEN \* device_deleted, line 301
            /\ ret' = RetNone
            /\ log' = <<LogLine("debug", "Device delete triggered ...")>>
            /\ pc' = "delete_host"
            /\ ClearLocals
       ELSE /\ log' = <<LogLine("failure", MsgUnknown)>>
            /\ ret' = RetMessage(MsgUnknown)
            /\ pc' = "done"
            /\ ClearLocals

\* the webhook delivers the event
Run == Invoke(host, folders, commit)

---------------------------------------------------------------------------
(* check_folders, lines 115-122                                            *)

\* target = parent + f"{p}/"
Target == parent \o px[idx] \o Slash

\* the folder_path check_folder puts into the URL for check_folder(target[:-1])
FolderPathArg(target) == Replace(DropLast(target), "/", "~")

FolderExistsExpectsNoContent(status) == status = HTTP_NO_CONTENT

\* what check_folder returns for the status of its GET
FolderExists(status) == status = HTTP_OK

AfterSegmentStopsEarly(i) == "check_host_exists"

\* where check_folders goes after the segment at position i
AfterSegment(i) == IF i < Len(px) THEN "check_folder" ELSE "check_host_exists"

\* check_folder(target[:-1]), lines 96-106 and 118
CheckFolder ==
    /\ pc = "check_folder"
    /\ \E fault \in FaultChoices :
        LET folder_path == FolderPathArg(Target)
            status == FolderStatus(fault, folder_path)
        IN  /\ Faulted(fault)
            /\ calls' = Append(calls,
                   Call("check_folder", "", folder_path, <<>>, "", NoETag, status))
            /\ IF FolderExists(status)
               THEN /\ parent' = Target
                    /\ idx' = idx + 1
                    /\ pc' = AfterSegment(idx)
               ELSE /\ pc' = "create_folder"
                    /\ UNCHANGED <<parent, idx>>
    /\ UNCHANGED <<serverVars, otherBudget, touchVars, pbVars, data,
                   commit, runs, ip, xpath, px, hstate, hfolder, hip, etag, log, ret,
                   prevCalls, prevRet, host0, folders0>>

\* create_folder(parent, p), lines 75-88 and 119, then parent = target
CreateFolder ==
    /\ pc = "create_folder"
    /\ \E fault \in FaultChoices :
        LET status == CreateFolderStatus(fault, parent, px[idx])
        IN  /\ Faulted(fault)
            /\ calls' = Append(calls,
                   Call("create_folder", "", parent, px[idx], "", NoETag, status))
            /\ folders' = IF status = HTTP_OK
                          THEN folders \cup {NewFolder(parent, px[idx])}
                          ELSE folders
    /\ parent' = Target
    /\ idx' = idx + 1
    /\ pc' = AfterSegment(idx)
    /\ UNCHANGED <<host, otherBudget, touchVars, pbVars, data, commit,
                   runs, ip, xpath, px, hstate, hfolder, hip, etag, log, ret, prevCalls, prevRet,
                   host0, folders0>>

---------------------------------------------------------------------------
(* device_update, lines 265-294                                            *)

AfterMoveRetries(hostIP, targetIP) == "move_to_folder"

AfterMoveSkipsIP(hostIP, targetIP) == "done"

\* where device_update goes after the move: the test at line 281
AfterMove(hostIP, targetIP) ==
    IF hostIP # targetIP THEN "update_ip_of_host" ELSE "done"

AfterLookupIPFirst(hostFolder, hostIP, targetPath, targetIP) ==
    IF hostIP # targetIP THEN "update_ip_of_host"
    ELSE IF hostFolder # targetPath THEN "move_to_folder"
    ELSE "done"

AfterLookupAlwaysMoves(hostFolder, hostIP, targetPath, targetIP) == "move_to_folder"

AfterLookupFolderOnly(hostFolder, hostIP, targetPath, targetIP) ==
    IF hostFolder # targetPath THEN "move_to_folder" ELSE "done"

\* where device_update goes once the host was found: the tests at lines 273, 281
AfterLookup(hostFolder, hostIP, targetPath, targetIP) ==
    IF hostFolder # targetPath THEN "move_to_folder"
    ELSE IF hostIP # targetIP THEN "update_ip_of_host"
    ELSE "done"

\* check_host_exists(name), lines 129-138, and the branch at 268-273, 289
CheckHostExists ==
    /\ pc = "check_host_exists"
    /\ \E fault \in FaultChoices :
        LET status == HostStatus(fault, data.name)
        IN  /\ Faulted(fault)
            /\ calls' = Append(calls,
                   Call("check_host_exists", data.name, <<>>, <<>>, "", NoETag, status))
            /\ IF status = HTTP_OK
               THEN /\ hstate' = TRUE
                    /\ hfolder' = host.folder
                    /\ hip' = host.ip
                    /\ etag' = host.etag
                    /\ log' = Append(log, LogLine("info", "host exist in checkmk"))
                    /\ pc' = AfterLookup(host.folder, host.ip, xpath, ip)
               ELSE /\ hstate' = FALSE
                    /\ hfolder' = <<>>
                    /\ hip' = ""
                    /\ etag' = NoETag
                    /\ log' = Append(log, LogLine("info", "Device not existing create it ..."))
                    /\ pc' = "create_host"
    /\ UNCHANGED <<serverVars, otherBudget, touchVars, pbVars, data,
                   commit, runs, ip, xpath, px, idx, parent, ret, prevCalls, prevRet, host0,
                   folders0>>

\* move_to_folder(name, xpath, etag), lines 206-219 and 274-279
MoveToFolder ==
    /\ pc = "move_to_folder"
    /\ \E fault \in FaultChoices :
        LET xfolder == Replace(xpath, "/", "~")
            status == MoveHostStatus(fault, data.name, xfolder, etag)
        IN  /\ Faulted(fault)
            /\ calls' = Append(calls,
                   Call("move_to_folder", data.name, xfolder, <<>>, "", etag, status))
            /\ host' = IF status = HTTP_OK
                       THEN HostAt(ServerPath(xfolder), host.ip, host.etag + 1)
                       ELSE host
            /\ log' = log \o <<LogLine("warning", "Host in wrong folder"),
                               IF status = HTTP_OK
                               THEN LogLine("success", "Host moved")
                               ELSE LogLine("failure", "Host move not successful")>>
    /\ pc' = AfterMove(hip, ip)
    /\ UNCHANGED <<folders, otherBudget, touchVars, pbVars, data, commit,
                   runs, ip, xpath, px, idx, parent, hstate, hfolder, hip, etag, ret,
                   prevCalls, prevRet, host0, folders0>>

\* update_ip_of_host(name, ip, etag), lines 183-199 and 282-287
UpdateIPOfHost ==
    /\ pc = "update_ip_of_host"
    /\ \E fault \in FaultChoices :
        LET status == UpdateHostStatus(fault, data.name, etag)
        IN  /\ Faulted(fault)
            /\ calls' = Append(calls,
                   Call("update_ip_of_host", data.name, <<>>, <<>>, ip, etag, status))
            /\ host' = IF status = HTTP_OK
                       THEN HostAt(host.folder, ip, host.etag + 1)
                       ELSE host
            /\ log' = log \o <<LogLine("warning", "IP address not equal"),
                               IF status = HTTP_OK
                               THEN LogLine("success", "Host IP updated")
                               ELSE LogLine("failure", "Host IP update failed")>>
    /\ pc' = "done"
    /\ UNCHANGED <<folders, otherBudget, touchVars, pbVars, data, commit,
                   runs, ip, xpath, px, idx, parent, hstate, hfolder, hip, etag, ret,
                   prevCalls, prevRet, host0, folders0>>

CreateHostBodyAtRoot(hostname, folder, addr) ==
    [folder |-> ROOT_FOLDER, host_name |-> hostname, ipaddress |-> addr]

\* the JSON body of create_host, lines 151-157
CreateHostBody(hostname, folder, addr) ==
    [folder |-> folder, host_name |-> hostname, ipaddress |-> addr]

\* create_host(name, xpath, ip), lines 142-162 and 290-294
CreateHost ==
    /\ pc = "create_host"
    /\ \E fault \in FaultChoices :
        LET body == CreateHostBody(data.name, xpath, ip)
            status == CreateHostStatus(fault, body.host_name, body.folder)
        IN  /\ Faulted(fault)
            /\ calls' = Append(calls,
                   Call("create_host", body.host_name, body.folder, <<>>,
                        body.ipaddress, NoETag, status))
            /\ host' = IF status = HTTP_OK
                       THEN HostAt(ServerPath(body.folder), body.ipaddress, FirstETag)
                       ELSE host
            /\ log' = Append(log, IF status = HTTP_OK
                                  THEN LogLine("success", "host created in checkmk")
                                  ELSE LogLine("warning", "error occured while creating host"))
    /\ pc' = "done"
    /\ UNCHANGED <<folders, otherBudget, touchVars, pbVars, data, commit,
                   runs, ip, xpath, px, idx, parent, hstate, hfolder, hip, etag, ret,
                   prevCalls, prevRet, host0, folders0>>

---------------------------------------------------------------------------
(* device_deleted, lines 302-308                                           *)

DeletedExpectsOK(status) == status = HTTP_OK

\* the state delete_host returns for the status of its DELETE, lines 173-176
Deleted(status) == status = HTTP_NO_CONTENT

\* the {state, code} device_deleted returns, lines 303-308
DeleteOutcome(status) ==
    IF Deleted(status)
    THEN RetState("successful", status)
    ELSE RetState("failed", status)

DeleteHost ==
    /\ pc = "delete_host"
    /\ \E fault \in FaultChoices :
        LET status == DeleteHostStatus(fault, data.name)
        IN  /\ Faulted(fault)
            /\ calls' = Append(calls,
                   Call("delete_host", data.name, <<>>, <<>>, "", NoETag, status))
            /\ host' = IF status = HTTP_NO_CONTENT THEN NoHost ELSE host
            /\ log' = Append(log, IF Deleted(status)
                                  THEN LogLine("success", "Device deleted in CheckMK")
                                  ELSE LogLine("failure",
                                           "Device delete in CheckMK was not successful."))
            /\ ret' = DeleteOutcome(status)
    /\ pc' = "done"
    /\ UNCHANGED <<folders, otherBudget, touchVars, pbVars, data, commit,
                   runs, ip, xpath, px, idx, parent, hstate, hfolder, hip, etag,
                   prevCalls, prevRet, host0, folders0>>

---------------------------------------------------------------------------
(* Another actor of the monitoring system                                  *)

\* someone else edits the host's address: the entity tag changes
OtherEditsHost ==
    /\ otherBudget > 0
    /\ host.exists
    /\ \E addr \in IPs \ {host.ip} : host' = HostAt(host.folder, addr, host.etag + 1)
    /\ otherBudget' = otherBudget - 1
    /\ hostTouched' = TRUE
    /\ UNCHANGED <<folders, faultBudget, apiFaulted, treeTouched, hostTouchedPrev,
                   treeTouchedPrev, scriptVars, pbVars>>

\* folder g lies below folder f
IsUnder(g, f) ==
    IF Len(g) > Len(f) THEN SubSeq(g, 1, Len(f) + 1) = f \o Slash ELSE FALSE

\* someone else removes a folder that holds nothing
OtherRemovesFolder ==
    /\ otherBudget > 0
    /\ \E f \in folders :
        /\ f # Slash
        /\ ~(host.exists /\ host.folder = f)
        /\ \A g \in folders : ~IsUnder(g, f)
        /\ folders' = folders \ {f}
    /\ otherBudget' = otherBudget - 1
    /\ treeTouched' = TRUE
    /\ UNCHANGED <<host, faultBudget, apiFaulted, hostTouched, hostTouchedPrev,
                   treeTouchedPrev, scriptVars, pbVars>>

---------------------------------------------------------------------------
(* The specification                                                       *)

PbIdle ==
    /\ pbRoot = ROOT_FOLDER
    /\ pbDevice = DevSiteOnly
    /\ pbPath = <<>>
    /\ pbDone = FALSE

\* the folders that exist at the start: the host's folder, and the first k
\* prefixes of the device's target path
InitialFolders(h, d, k) ==
    {Slash}
    \cup (IF h.exists THEN Prefixes(h.folder) ELSE {})
    \cup {Prefix(XPath(ROOT_FOLDER, d), j) : j \in 1..k}

\* the folder the device's site was in before its region changed
OldFolder(d) ==
    IF d.hasRegion THEN XPath(ROOT_FOLDER, DevSiteOnly) ELSE XPath(ROOT_FOLDER, DevRegion)

\* the folders the host entry may be in at the start: the target, or the old one
HostFolders(d) == {XPath(ROOT_FOLDER, d), OldFolder(d)}

InitialHosts(d) ==
    {NoHost} \cup {HostAt(f, a, FirstETag) : f \in HostFolders(d), a \in IPs}

\* the state before the first event, with the server errors and the edits of
\* other actors that may still happen
InitWith(faults, others) ==
    /\ data \in Payloads
    /\ commit \in BOOLEAN
    /\ host \in InitialHosts(data.device)
    /\ \E k \in 0..Len(Segments(XPath(ROOT_FOLDER, data.device))) :
        folders = InitialFolders(host, data.device, k)
    /\ faultBudget = faults
    /\ apiFaulted = FALSE
    /\ otherBudget = others
    /\ hostTouched = FALSE
    /\ treeTouched = FALSE
    /\ hostTouchedPrev = FALSE
    /\ treeTouchedPrev = FALSE
    /\ runs = 0
    /\ pc = "idle"
    /\ ip = ""
    /\ xpath = <<>>
    /\ px = <<>>
    /\ idx = 1
    /\ parent = <<>>
    /\ hstate = FALSE
    /\ hfolder = <<>>
    /\ hip = ""
    /\ etag = NoETag
    /\ calls = <<>>
    /\ log = <<>>
    /\ ret = RetNone
    /\ prevCalls = <<>>
    /\ prevRet = RetNone
    /\ host0 = host
    /\ folders0 = folders
    /\ PbIdle

Init == InitWith(MaxFaults, MaxOther)

Next ==
    \/ Run
    \/ CheckFolder
    \/ CreateFolder
    \/ CheckHostExists
    \/ MoveToFolder
    \/ UpdateIPOfHost
    \/ CreateHost
    \/ DeleteHost
    \/ OtherEditsHost
    \/ OtherRemovesFolder

Spec == Init /\ [][Next]_vars


---------------------------------------------------------------------------
(* The path builder on its own: every root the configuration allows and    *)
(* every combination of absent, empty and non-empty slugs                  *)

PathRoots == {ROOT_FOLDER, Slash}
PathSites == {SiteB, <<"m">>, <<"x", "y">>}
PathRegionSlugs == {<<>>, RegionDE, <<"a", "t">>}
PathParentSlugs == {<<>>, RegionEU, <<"a", "s">>}

PathDevices ==
    {Dev(st, FALSE, <<>>, FALSE, <<>>, TRUE, TargetIP) : st \in PathSites}
    \cup {Dev(st, TRUE, r, FALSE, <<>>, TRUE, TargetIP) :
            st \in PathSites, r \in PathRegionSlugs}
    \cup {Dev(st, TRUE, r, TRUE, q, TRUE, TargetIP) :
            st \in PathSites, r \in PathRegionSlugs, q \in PathParentSlugs}

InitPath ==
    /\ pbRoot \in PathRoots
    /\ pbDevice \in PathDevices
    /\ pbPath = <<>>
    /\ pbDone = FALSE
    /\ data = [hasEvent |-> FALSE, event |-> "", name |-> HostName, device |-> DevSiteOnly]
    /\ commit = FALSE
    /\ host = NoHost
    /\ folders = {Slash}
    /\ faultBudget = 0
    /\ apiFaulted = FALSE
    /\ otherBudget = 0
    /\ hostTouched = FALSE
    /\ treeTouched = FALSE
    /\ hostTouchedPrev = FALSE
    /\ treeTouchedPrev = FALSE
    /\ runs = 0
    /\ pc = "idle"
    /\ ip = ""
    /\ xpath = <<>>
    /\ px = <<>>
    /\ idx = 1
    /\ parent = <<>>
    /\ hstate = FALSE
    /\ hfolder = <<>>
    /\ hip = ""
    /\ etag = NoETag
    /\ calls = <<>>
    /\ log = <<>>
    /\ ret = RetNone
    /\ prevCalls = <<>>
    /\ prevRet = RetNone
    /\ host0 = host
    /\ folders0 = folders

\* lines 242-260 for the device pbDevice under the root folder pbRoot
ConstructPath ==
    /\ ~pbDone
    /\ pbPath' = XPath(pbRoot, pbDevice)
    /\ pbDone' = TRUE
    /\ UNCHANGED <<pbRoot, pbDevice, serverVars, envVars, scriptVars>>

NextPath == ConstructPath

SpecPath == InitPath /\ [][NextPath]_vars

---------------------------------------------------------------------------
(* What the claims speak about                                             *)

Ops(cs, op) == {i \in 1..Len(cs) : cs[i].op = op}
Count(cs, op) == Cardinality(Ops(cs, op))

MutatingOps ==
    {"create_folder", "create_host", "move_to_folder", "update_ip_of_host", "delete_host"}

Mutations(cs) == {i \in 1..Len(cs) : cs[i].op \in MutatingOps}

\* the invocation is an "updated" event of a device that has an address
Updating == data.hasEvent /\ data.event = "updated" /\ data.device.hasIP

\* the invocation is a "deleted" event
Deleting == data.hasEvent /\ data.event = "deleted"

TargetPath == XPath(ROOT_FOLDER, data.device)

AtTarget(h) == h.exists /\ h.folder = TargetPath /\ h.ip = data.device.ip

\* no other actor has changed the monitoring system since this invocation started
NoOtherActor == ~hostTouched /\ ~treeTouched

\* the host lookup of this invocation was answered, with this result
LookupReported(found) ==
    \E i \in Ops(calls, "check_host_exists") : (calls[i].status = HTTP_OK) = found

HasLog(level, msg) == \E i \in 1..Len(log) : log[i] = LogLine(level, msg)

\* no mutating call so far, and the monitoring system is as the invocation found it
Unchanged == Mutations(calls) = {} /\ host = host0 /\ folders = folders0

\* every folder lookup and host lookup among cs returned the success status
LookupsSucceeded(cs) ==
    \A i \in Ops(cs, "check_folder") \cup Ops(cs, "check_host_exists") :
        cs[i].status = HTTP_OK

\* every create-folder call among cs returned the success status
CreatesSucceeded(cs) == \A i \in Ops(cs, "create_folder") : cs[i].status = HTTP_OK

\* every folder lookup among cs was answered: found, or not found
FolderLookupsAnswered(cs) ==
    \A i \in Ops(cs, "check_folder") : cs[i].status \in {HTTP_OK, HTTP_NOT_FOUND}

\* this invocation's check_folders is the second of two calls in succession on the
\* same path, with no other actor changing the folder tree since the first began
SecondCall == Updating /\ runs >= 2 /\ ~treeTouched /\ ~treeTouchedPrev

RegionGiven(d) == d.hasRegion /\ d.regionSlug # <<>>
ParentGiven(d) == d.hasRegion /\ d.hasParent /\ d.parentSlug # <<>>

\* the path the Path Builder rules of the design give for device d under root
ClaimedPath(root, d) ==
    IF RegionGiven(d) /\ ParentGiven(d)
    THEN root \o Slash \o d.parentSlug \o Slash \o d.regionSlug \o Slash \o d.site
    ELSE IF RegionGiven(d)
    THEN root \o Slash \o d.regionSlug \o Slash \o d.site
    ELSE root \o Slash \o d.site

---------------------------------------------------------------------------
(* Repeated "updated" events against a quiet, cooperative monitoring       *)
(* system: no other actor, no server error.  The script runs each HTTP     *)
(* request to its answer and is invoked again after it returned.           *)

InitFair == InitWith(0, 0) /\ Updating

NextFair ==
    \/ Run
    \/ CheckFolder
    \/ CreateFolder
    \/ CheckHostExists
    \/ MoveToFolder
    \/ UpdateIPOfHost
    \/ CreateHost

FairSpec == InitFair /\ [][NextFair]_vars /\ WF_vars(NextFair)

---------------------------------------------------------------------------
(* The same event delivered twice, the second time with the other commit   *)
(* flag and against the monitoring system as the first invocation found    *)
(* it.  The monitoring system is quiet: no other actor, no server error,   *)
(* so that both invocations meet the same monitoring system.               *)

InitCommit == InitWith(0, 0)

FirstRun == runs = 0 /\ Run

Replay == runs = 1 /\ Invoke(host0, folders0, ~commit)

NextCommit ==
    \/ FirstRun
    \/ Replay
    \/ CheckFolder
    \/ CreateFolder
    \/ CheckHostExists
    \/ MoveToFolder
    \/ UpdateIPOfHost
    \/ CreateHost
    \/ DeleteHost

SpecCommit == InitCommit /\ [][NextCommit]_vars

---------------------------------------------------------------------------
(* The claims                                                              *)

\* C1: single-pass reconciliation.  After one device_update has run to completion
\* with no other actor and an API that accepts every request whose entity tag is
\* current, the host exists at the target folder with the target address, whatever
\* the host's state was before (absent, wrong folder, wrong address, both wrong).
C1_SinglePassReconciles ==
    (Updating /\ pc = "done" /\ ~apiFaulted /\ NoOtherActor) => AtTarget(host)

\* C2: when the host lookup reports the host absent, device_update issues exactly
\* one create-host call, carrying (hostname, target path, target address), issues
\* no move, update-IP or delete call, and logs success exactly when the create
\* call returned the success status.
C2_CreateWhenAbsent ==
    (Updating /\ LookupReported(FALSE)) =>
        /\ Count(calls, "move_to_folder") = 0
        /\ Count(calls, "update_ip_of_host") = 0
        /\ Count(calls, "delete_host") = 0
        /\ Count(calls, "create_host") <= 1
        /\ pc = "done" =>
            /\ Count(calls, "create_host") = 1
            /\ \A i \in Ops(calls, "create_host") :
                /\ calls[i].hostname = data.name
                /\ calls[i].path = TargetPath
                /\ calls[i].ip = data.device.ip
                /\ HasLog("success", "host created in checkmk")
                       <=> (calls[i].status = HTTP_OK)

\* C2 happens: an absent host of a device with region and parent region is created
C2_Witness ==
    /\ Updating /\ LookupReported(FALSE) /\ pc = "done"
    /\ \E i \in Ops(calls, "create_host") : calls[i].status = HTTP_OK
    /\ HasLog("success", "host created in checkmk")
    /\ data.device = DevParent

\* C3: minimal corrective actions.  When the host lookup reports the host present,
\* device_update issues a move call exactly when the reported folder differs from
\* the target path, an update-IP call exactly when the reported address differs
\* from the target address, each at most once, and no create-host call.
C3_MinimalCorrections ==
    (Updating /\ LookupReported(TRUE)) =>
        /\ Count(calls, "create_host") = 0
        /\ Count(calls, "move_to_folder") <= 1
        /\ Count(calls, "update_ip_of_host") <= 1
        /\ Count(calls, "move_to_folder") = 1 => hfolder # TargetPath
        /\ Count(calls, "update_ip_of_host") = 1 => hip # data.device.ip
        /\ pc = "done" =>
            /\ Count(calls, "move_to_folder") = (IF hfolder # TargetPath THEN 1 ELSE 0)
            /\ Count(calls, "update_ip_of_host") = (IF hip # data.device.ip THEN 1 ELSE 0)

\* C3 happens: folder and address both differ, one move and one update-IP call
C3_Witness ==
    /\ Updating /\ LookupReported(TRUE) /\ pc = "done"
    /\ hfolder # TargetPath /\ hip # data.device.ip
    /\ Count(calls, "move_to_folder") = 1
    /\ Count(calls, "update_ip_of_host") = 1

C5_DeleteFlow ==
    (Deleting /\ runs >= 1) =>
        /\ Len(calls) <= 1
        /\ \A i \in 1..Len(calls) :
            calls[i].op = "delete_host" /\ calls[i].hostname = data.name
        /\ pc = "done" =>
            /\ Len(calls) = 1
            /\ ret = IF calls[1].status = HTTP_NO_CONTENT
                     THEN RetState("successful", calls[1].status)
                     ELSE RetState("failed", calls[1].status)

\* C5 happens: the host did not exist, and the API's status comes back as a failure
C5_Witness ==
    /\ Deleting /\ pc = "done" /\ ~host0.exists /\ ~apiFaulted /\ NoOtherActor
    /\ ret.state = "failed" /\ ret.code = calls[1].status
    /\ calls[1].status # HTTP_NO_CONTENT

\* C6: the path builder.  For every site slug and every combination of region and
\* parent region (absent, empty or non-empty) the path is
\* root/parent_region/region/site when both slugs are present and non-empty,
\* root/region/site when only the region slug is, and root/site otherwise.
C6_PathBuilderResult == pbDone => pbPath = ClaimedPath(pbRoot, pbDevice)

C8_PrefixesExistAtHostCall ==
    (pc \in {"create_host", "move_to_folder"} /\ ~treeTouched)
        => Prefixes(xpath) \subseteq folders

\* C9: convergence.  Under repeated "updated" events with an unchanged target, no
\* other actor and an API that accepts every request whose entity tag is current,
\* the host eventually is at the target path with the target address, and from
\* then on every invocation leaves it unchanged.
C9_Convergence ==
    /\ <>AtTarget(host)
    /\ [][AtTarget(host) => host' = host]_vars

\* C9 happens: the second invocation started off the target and reached it
C9_Witness ==
    /\ runs = 2 /\ pc = "done"
    /\ host0.exists /\ ~AtTarget(host0)
    /\ AtTarget(host)

\* C10: a payload without the "event" key makes run() return the informational
\* message and issue no HTTP request, whatever else the payload and the commit
\* flag hold.
C10_NoEventKey ==
    (~data.hasEvent /\ runs >= 1) =>
        /\ pc = "done"
        /\ ret = RetMessage(MsgWrongTrigger)
        /\ calls = <<>>
        /\ log = <<>>

\* C10 happens: commit set, a device without address, a host in the monitoring system
C10_Witness ==
    /\ ~data.hasEvent /\ runs >= 1 /\ pc = "done"
    /\ commit
    /\ ~data.device.hasIP
    /\ host.exists
    /\ ret.kind = "message"

\* C11: an event whose "event" value is neither "updated" nor "deleted" makes run()
\* return the "Unknown action triggered" outcome, log an "Unknown action triggered"
\* failure and issue no call at all, so that the monitoring system is unchanged.
C11_UnknownEvent ==
    (data.hasEvent /\ data.event \notin {"updated", "deleted"} /\ runs >= 1) =>
        /\ pc = "done"
        /\ ret = RetMessage(MsgUnknown)
        /\ log = <<LogLine("failure", MsgUnknown)>>
        /\ calls = <<>>
        /\ NoOtherActor => (host = host0 /\ folders = folders0)

\* C11 happens: a "created" event for a device whose host is not in the monitoring
\* system; nothing is created
C11_Witness ==
    /\ data.hasEvent /\ data.event = "created" /\ runs >= 1 /\ pc = "done"
    /\ data.device.hasIP
    /\ ~host0.exists /\ ~host.exists
    /\ HasLog("failure", MsgUnknown)
    /\ ret.kind = "message" /\ ret.message = MsgUnknown

\* the invocation is an "updated" event of a device without primary IPv4 address
UpdatingWithoutIP == data.hasEvent /\ data.event = "updated" /\ ~data.device.hasIP

\* C12: no host entry without a primary IPv4 address.  An "updated" event for a
\* device that has no primary IPv4 address issues no create-host call and no other
\* mutating call, and no host entry for the device appears in the monitoring system.
C12_NoHostWithoutIP ==
    (UpdatingWithoutIP /\ runs >= 1) =>
        /\ Count(calls, "create_host") = 0
        /\ Mutations(calls) = {}
        /\ NoOtherActor => (host = host0 /\ folders = folders0)
        /\ ~host0.exists => ~host.exists

\* C12 happens: the event was handled up to the read of the address, the host is
\* not in the monitoring system and the target folders do not exist
C12_Witness ==
    /\ UpdatingWithoutIP /\ runs >= 1 /\ pc = "raised"
    /\ ~host.exists
    /\ XPath(ROOT_FOLDER, data.device) \notin folders
    /\ log = <<LogLine("debug", "Device update triggered ...")>>

\* C13: the commit flag does not influence behaviour.  Two invocations with the
\* same payload against the same monitoring-system state, one with commit set and
\* one with commit unset, issue the same sequence of calls, answered alike, and
\* end with the same outcome.
C13_CommitIgnored ==
    (runs = 2 /\ pc \in {"done", "raised"}) =>
        /\ calls = prevCalls
        /\ Outcome = prevRet

\* C13 happens: both invocations moved the host and tried to update its address
C13_Witness ==
    /\ runs = 2 /\ pc = "done"
    /\ commit
    /\ Count(calls, "move_to_folder") = 1
    /\ Count(calls, "update_ip_of_host") = 1
    /\ calls = prevCalls

\* two consecutive "/" in the path: an empty segment
HasEmptySegment(path) ==
    \E i \in 1..(Len(path) - 1) : path[i] = "/" /\ path[i + 1] = "/"

\* C14: the built target path is normalized.  For every allowed root folder,
\* the root "/" included, and every combination of absent or empty region and
\* parent region, the path contains no empty segment (no two consecutive "/").
C14_NoEmptySegment == pbDone => ~HasEmptySegment(pbPath)

\* the host lookup found the host off the target in both folder and address
BothDiffer ==
    Updating /\ LookupReported(TRUE) /\ hfolder # TargetPath /\ hip # data.device.ip

\* C15: when an existing host differs from the target in both folder and address,
\* device_update issues the move call first and the update-IP call second, the
\* update-IP call whether the move succeeded or failed; both calls carry the one
\* entity tag the single host lookup returned, and no second host lookup happens
\* in between.
C15_MoveThenUpdateSameTag ==
    BothDiffer =>
        /\ Count(calls, "check_host_exists") = 1
        /\ ~hostTouched => etag = host0.etag
        /\ \A l \in Ops(calls, "check_host_exists") :
            /\ pc \in {"move_to_folder", "update_ip_of_host", "done"}
            /\ pc = "move_to_folder" => Len(calls) = l
            /\ pc = "update_ip_of_host" => Len(calls) = l + 1
            /\ pc = "done" => Len(calls) = l + 2
            /\ Len(calls) > l =>
                /\ calls[l + 1].op = "move_to_folder"
                /\ calls[l + 1].etag = etag
                /\ ServerPath(calls[l + 1].path) = TargetPath
            /\ Len(calls) > l + 1 =>
                /\ calls[l + 2].op = "update_ip_of_host"
                /\ calls[l + 2].etag = etag
                /\ calls[l + 2].ip = data.device.ip

\* C15 happens: the move failed, and the address update was issued and accepted
C15_Witness ==
    /\ BothDiffer /\ pc = "done"
    /\ \E m \in Ops(calls, "move_to_folder") :
        /\ calls[m].status # HTTP_OK
        /\ calls[m + 1].op = "update_ip_of_host"
        /\ calls[m + 1].status = HTTP_OK
        /\ calls[m + 1].etag = calls[m].etag

\* the folder made of the first k of the segments segs; the root for k = 0
FolderOf(segs, k) == IF k = 0 THEN Slash ELSE JoinPath(SubSeq(segs, 1, k))

\* C16: check_folders walks the path segments in root-to-leaf order.  For the k-th
\* segment it performs exactly one existence check of the prefix formed by the
\* first k segments (a non-success response counts as absent), issues a
\* create-folder call with parent = the prefix of the first k-1 segments and
\* name = the k-th segment if and only if that check reported absent, and then
\* continues with segment k+1 whether the folder was present, created, or the
\* creation failed.  Paths are compared as the API reads them.
C16_FolderWalk ==
    (Updating /\ runs >= 1) =>
        LET segs == Segments(xpath)
            lookups == Ops(calls, "check_folder")
        IN
        /\ \A i \in lookups :
            \* this is the k-th folder lookup
            LET k == Cardinality({j \in lookups : j <= i}) IN
            /\ k <= Len(segs)
            /\ ServerPath(calls[i].path) = FolderOf(segs, k)
            /\ IF calls[i].status # HTTP_OK
               THEN IF i = Len(calls)
                    THEN pc = "create_folder"
                    ELSE /\ calls[i + 1].op = "create_folder"
                         /\ ServerPath(calls[i + 1].path) = FolderOf(segs, k - 1)
                         /\ calls[i + 1].name = segs[k]
               ELSE i < Len(calls) => calls[i + 1].op # "create_folder"
        /\ \A i \in Ops(calls, "create_folder") :
            i > 1 /\ calls[i - 1].op = "check_folder"
        /\ IF pc \in {"check_folder", "create_folder"}
           THEN \A i \in 1..Len(calls) : calls[i].op \in {"check_folder", "create_folder"}
           ELSE pc # "raised" => Cardinality(lookups) = Len(segs)

\* C16 happens: of a path of four segments one folder was present, one creation
\* failed, and the walk went on to the last segment
C16_Witness ==
    /\ Updating /\ pc = "done"
    /\ Len(Segments(xpath)) = 4
    /\ Count(calls, "check_folder") = 4
    /\ \E i \in Ops(calls, "check_folder") : calls[i].status = HTTP_OK
    /\ \E i \in Ops(calls, "create_folder") :
        /\ calls[i].status # HTTP_OK
        /\ \E j \in Ops(calls, "check_folder") : j > i
    /\ \E i \in Ops(calls, "create_folder") : calls[i].status = HTTP_OK

\* the operations that are about the one host
HostOps ==
    {"check_host_exists", "create_host", "move_to_folder", "update_ip_of_host",
     "delete_host"}

\* C17: no retries.  Within one invocation of run() every call is attempted at
\* most once, whatever the responses are: at most one host lookup, one
\* create-host, one move, one update-IP and one delete call, and for each prefix
\* of the target path at most one folder lookup and at most one create-folder
\* call; a failed call is never issued again.
C17_NoRetries ==
    runs >= 1 =>
        LET lookups == Ops(calls, "check_folder")
            creates == Ops(calls, "create_folder")
            lookedUp == {ServerPath(calls[i].path) : i \in lookups}
            created == {NewFolder(calls[i].path, calls[i].name) : i \in creates}
        IN  /\ \A op \in HostOps : Count(calls, op) <= 1
            /\ Cardinality(lookedUp) = Cardinality(lookups)
            /\ Cardinality(created) = Cardinality(creates)

\* C17 happens: a create-folder call and the move both failed, and the invocation
\* ended without a second attempt of either
C17_Witness ==
    /\ runs >= 1 /\ pc = "done"
    /\ \E i \in Ops(calls, "create_folder") : calls[i].status # HTTP_OK
    /\ \E i \in Ops(calls, "move_to_folder") : calls[i].status # HTTP_OK
    /\ Count(calls, "create_folder") = 1
    /\ Count(calls, "move_to_folder") = 1

=============================================================================
